---- MODULE Spec2Model ----
(***************************************************************************)
(* State-machine model of the AIMMee topology / registry / port / power    *)
(* bookkeeping of src/AIMMee/AIMMee.py.                                     *)
(*                                                                         *)
(* A Python object is a record whose fields are exactly the attributes the *)
(* code has assigned so far; the heap of SimObjects is the sequence        *)
(* `objects`, in construction order, and an object reference is an index   *)
(* into that sequence (None is 0).  Power is held in eighths of a watt and *)
(* loads as exact fractions, so that 656.25, 0.375 and 0.4 are exact.      *)
(***************************************************************************)
EXTENDS Integers, Sequences, FiniteSets, TLC

\* ------------------------------------------------------------------ bounds
MaxObjects == 3        \* SimObjects constructed in one run
MaxGuid == 3           \* size of the address space id() draws from
MaxPorts == 2          \* largest n_rf_ports argument tried
MaxTicks == 5          \* iterations of a pure-wait loop that are followed
Horizon == 3           \* the until argument of the Sim, in seconds
MaxDigit == 2          \* largest number in a configuration document
MaxSizeArg == 9        \* largest small max_file_size_bytes argument tried
MaxRadius == 1         \* largest radius given to a cell, in metres
MaxCoord == 2          \* largest cell coordinate tried, in half metres
MaxPanelCalls == 2     \* constructor calls of the standalone AntennaPanel

\* --------------------------------------------------------------- constants
None == 0              \* Python None, for references, GUIDs and ports
NoAttribute == -1      \* reading an attribute the object does not have
DefaultRfPorts == 2    \* RemoteRadioHead falls back to two RF ports
RfOutputMaxWatts == 20 \* rf_output_max_watts of a port, in whole watts
CuMaxPower == 5250     \* 656.25 W in eighths of a watt (example_CU_power_model)
DefaultMaxFileSizeBytes == 100000000  \* max_file_size_bytes=1e8

CellClass == "AIMMeeCell"
UEClass == "AIMMeeUE"
RAPClass == "RadioAccessPoint"
RUClass == "RadioUnit"
DUClass == "DistributedUnit"
CUClass == "CentralisedUnit"
RRHClass == "RemoteRadioHead"
APClass == "AntennaPanel"

VARIABLES
    objects,     \* the SimObjects constructed so far (records of attributes)
    id_iter,     \* SimObject.id_iter, the itertools count shared by all classes
    guid_map,    \* Sim.guid_map : GUID -> object reference
    topology,    \* Sim.topology : class name -> (GUID -> list of GUIDs)
    ticks,       \* completed iterations of each pure-wait loop()
    pc,          \* where each node's loop() generator stands
    result,      \* how the last call ended: "ok", a printed notice, or the exception
    returned,    \* the value the last call handed back, for the calls that read
    other_sim,   \* a second Sim of the same process: its nodes, guid_map and topology
    clock,       \* simulated time: env.now and the wake time of each loop that has run
    config_file, \* the configuration file on disk: its text, character by character
    standalone   \* scratch_file.py: the class attribute AntennaPanel.id and the panels made

\* what the operations on the nodes of the first Sim leave alone
elsewhere == <<other_sim, clock, config_file, standalone>>

vars == <<objects, id_iter, guid_map, topology, ticks, pc, result, returned, elsewhere>>

\* a Python value as far as the reads tell values apart: None, a number (in
\* eighths of a watt), a callable, a string, or a reference to a SimObject
PyNone == [kind |-> "None", value |-> 0]

PyObject(o) == [kind |-> "object", value |-> o]

\* the position of a generator that is suspended at its yield (or not yet started)
AtYield == "yield"

\* ----------------------------------------------------------------- helpers
Range(s) == {s[i] : i \in DOMAIN s}

HasAttr(rec, name) == name \in DOMAIN rec

GetAttr(rec, name) == IF name \in DOMAIN rec THEN rec[name] ELSE NoAttribute

SetAttr(rec, name, v) ==
    [n \in (DOMAIN rec) \cup {name} |-> IF n = name THEN v ELSE rec[n]]

Refs == DOMAIN objects

OfClass(cls) == {o \in Refs : objects[o].class_name = cls}

\* list.remove(x): drops the first occurrence
RemoveFirst(s, x) ==
    IF x \notin Range(s) THEN s
    ELSE LET i == CHOOSE k \in DOMAIN s : s[k] = x /\ \A j \in 1..(k-1) : s[j] # x
         IN  SubSeq(s, 1, i-1) \o SubSeq(s, i+1, Len(s))

\* while x in s: s.remove(x)
RemoveAll(s, x) == SelectSeq(s, LAMBDA y : y # x)

\* Faulty variant: id() handing out an address that is still in use
IdOfAnyObject(objs) == 1..MaxGuid

\* id(self): an address no live object has.  Every SimObject stays referenced
\* by the guid_map of its Sim, so every constructed object is live.
IdOfNewObject(objs) ==
    (1..MaxGuid) \ ({objs[o].guid : o \in DOMAIN objs}
                     \cup {other_sim.objects[o].guid : o \in DOMAIN other_sim.objects})

\* dict.setdefault on the two levels of Sim.topology
TopologySetDefault(topo, cls, g) ==
    IF cls \notin DOMAIN topo THEN (cls :> (g :> <<>>)) @@ topo
    ELSE IF g \in DOMAIN topo[cls] THEN topo
    ELSE [topo EXCEPT ![cls] = (g :> <<>>) @@ @]

\* Faulty variant: add_to_sim that leaves the object out of guid_map
GuidMapNoStore(gmap, g, o) == gmap

GuidMapSetDefault(gmap, g, o) == IF g \in DOMAIN gmap THEN gmap ELSE (g :> o) @@ gmap

\* Faulty variant: register_link that records the link on the caller's side only
register_link_one_way(topo, a, b) ==
    IF b.guid \notin Range(topo[a.class_name][a.guid])
    THEN [topo EXCEPT ![a.class_name][a.guid] = Append(@, b.guid)]
    ELSE topo

\* Faulty variant: register_link without the membership tests
register_link_always_append(topo, a, b) ==
    LET t1 == [topo EXCEPT ![a.class_name][a.guid] = Append(@, b.guid)]
    IN  [t1 EXCEPT ![b.class_name][b.guid] = Append(@, a.guid)]

\* Faulty variant: register_link that puts the new neighbour first in self's list
register_link_prepend(topo, a, b) ==
    LET t1 == IF b.guid \notin Range(topo[a.class_name][a.guid])
              THEN [topo EXCEPT ![a.class_name][a.guid] = <<b.guid>> \o @]
              ELSE topo
    IN  IF a.guid \notin Range(t1[b.class_name][b.guid])
        THEN [t1 EXCEPT ![b.class_name][b.guid] = Append(@, a.guid)]
        ELSE t1

\* SimObject.register_link on the topology value: the two lists are looked up
\* first, then each side is appended to unless already present.
register_link(topo, a, b) ==
    LET t1 == IF b.guid \notin Range(topo[a.class_name][a.guid])
              THEN [topo EXCEPT ![a.class_name][a.guid] = Append(@, b.guid)]
              ELSE topo
    IN  IF a.guid \notin Range(t1[b.class_name][b.guid])
        THEN [t1 EXCEPT ![b.class_name][b.guid] = Append(@, a.guid)]
        ELSE t1

\* the notice register_link prints when either side was already present
register_link_notice(topo, a, b) ==
    IF b.guid \in Range(topo[a.class_name][a.guid])
       \/ (a.guid \in Range(topo[b.class_name][b.guid]) /\ a.guid # b.guid)
       \/ (a.guid = b.guid /\ a.class_name = b.class_name)
    THEN "already exists" ELSE "ok"

\* SimObject.__init__: guid, class_name, idx, registration, default interval
SimObjectInit(rec, cls, g, n) ==
    LET r1 == SetAttr(SetAttr(SetAttr(rec, "guid", g), "class_name", cls), "idx", n)
    IN  IF HasAttr(r1, "interval") THEN r1 ELSE SetAttr(r1, "interval", 0)

\* Faulty variant: add_to_sim that assigns a fresh list instead of setdefault
add_to_sim_assign(topo, cls, g) ==
    IF cls \in DOMAIN topo /\ g \in DOMAIN topo[cls]
    THEN [topo EXCEPT ![cls][g] = <<>>]
    ELSE TopologySetDefault(topo, cls, g)

\* SimObject.add_to_sim: setdefault on topology (guid_map is GuidMapSetDefault)
add_to_sim(topo, cls, g) == TopologySetDefault(topo, cls, g)

\* What every constructor leaves behind once SimObject.__init__ has run: the
\* new object on the heap, registered under its GUID, and `used` draws taken
\* from id_iter.  `topo` is the topology after registration and links.
Constructed(rec, topo, used, outcome) ==
    /\ objects' = Append(objects, rec)
    /\ id_iter' = id_iter + used
    /\ guid_map' = GuidMapSetDefault(guid_map, rec.guid, Len(objects) + 1)
    /\ topology' = topo
    /\ ticks' = Append(ticks, 0)
    /\ pc' = Append(pc, AtYield)
    /\ result' = outcome
    /\ returned' = PyNone
    /\ UNCHANGED elsewhere

CanConstruct == Len(objects) < MaxObjects

\* ------------------------------------------------------------ constructors

\* positions are triples of whole half metres
CellPositions == {<<x, y, z>> : x \in {0, MaxCoord}, y \in {0}, z \in {0, MaxCoord}}

\* the xyz of a cell made without one
CellXyz == <<0, 0, MaxCoord>>

\* Sim.make_cell(xyz=...) -> AIMMeeCell.__init__, the base class keeping xyz
make_cell_at(xyz) ==
    /\ CanConstruct
    /\ xyz \in CellPositions
    /\ \E g \in IdOfNewObject(objects) :
          LET rec == SimObjectInit([radius |-> 0, xyz |-> xyz], CellClass, g, id_iter + 1)
          IN  Constructed(rec, add_to_sim(topology, CellClass, g), 2, "ok")

\* Sim.make_cell -> AIMMeeCell.__init__
make_cell == make_cell_at(CellXyz)

\* cell.radius = r, the attribute AIMMeeCell.__init__ creates as 0.0
assign_radius(c, r) ==
    /\ c \in OfClass(CellClass)
    /\ r \in 0..MaxRadius
    /\ objects' = [objects EXCEPT ![c].radius = r]
    /\ result' = "ok"
    /\ returned' = PyNone
    /\ UNCHANGED <<id_iter, guid_map, topology, ticks, pc, elsewhere>>

\* np.random.uniform(-1,1,3): each component in [-1, 1), here in halves
UniformDraws == {<<a, b, c>> : a \in -2..1, b \in -2..1, c \in {-2, 1}}

\* the xyz RadioAccessPoint.__init__ leaves: the assignment under
\* at_cell_centre is overwritten by the next statement, then xyz[2] = 0.0
RadioAccessPoint_xyz(cell_xyz, radius, at_cell_centre, u) ==
    <<cell_xyz[1] + radius * u[1], cell_xyz[2] + radius * u[2], 0>>

\* RadioAccessPoint.__init__(sim, cell, at_cell_centre) with the draw u.  With
\* cell = None the object is registered and then self.cell.get_xyz() raises.
RadioAccessPoint_init(cell, at_cell_centre, u) ==
    /\ CanConstruct
    /\ cell \in OfClass(CellClass) \cup {None}
    /\ at_cell_centre \in BOOLEAN
    /\ u \in UniformDraws
    /\ \E g \in IdOfNewObject(objects) :
          LET rec0 == [cell |-> cell, interval |-> 1, at_cell_centre |-> at_cell_centre]
              rec == SimObjectInit(rec0, RAPClass, g, id_iter + 1)
              t0 == add_to_sim(topology, RAPClass, g)
          IN  IF cell # None
              THEN Constructed(SetAttr(rec, "xyz",
                                       RadioAccessPoint_xyz(objects[cell].xyz,
                                                            objects[cell].radius,
                                                            at_cell_centre, u)),
                               register_link(t0, rec, objects[cell]), 2, "ok")
              ELSE Constructed(rec, t0, 2, "AttributeError")

\* Sim.make_UE -> AIMMeeUE.__init__ (serving_cell = None is set by the base UE)
make_UE ==
    /\ CanConstruct
    /\ \E g \in IdOfNewObject(objects) :
          LET rec0 == [last_cell_guid |-> None, current_cell_guid |-> None,
                       serving_cell |-> None]
              rec == SimObjectInit(rec0, UEClass, g, id_iter + 1)
          IN  Constructed(rec, add_to_sim(topology, UEClass, g), 2, "ok")

\* Sim.make_RadioAccessPoint(cell) -> RadioAccessPoint.__init__, with
\* at_cell_centre left at its default True
make_RadioAccessPoint(cell) == \E u \in UniformDraws : RadioAccessPoint_init(cell, TRUE, u)

\* RadioUnit.__init__ for the new object with GUID g: the object and the
\* topology it leaves.  self.du is set to None whatever du is passed, so the
\* du branch never links.
RadioUnitInit(cell, rap, du, g) ==
    LET rec0 == [cell |-> cell, rap |-> rap, du |-> None, interval |-> 1]
        rec == SimObjectInit(rec0, RUClass, g, id_iter + 1)
        t0 == add_to_sim(topology, RUClass, g)
        t1 == IF rec.cell # None THEN register_link(t0, rec, objects[cell]) ELSE t0
        t2 == IF rec.rap # None THEN register_link(t1, rec, objects[rap]) ELSE t1
        t3 == IF rec.du # None THEN register_link(t2, rec, objects[rec.du]) ELSE t2
    IN  [rec |-> rec, topo |-> t3]

\* Sim.make_RadioUnit
make_RadioUnit(cell, rap, du) ==
    /\ CanConstruct
    /\ cell \in OfClass(CellClass) \cup {None}
    /\ rap \in OfClass(RAPClass) \cup {None}
    /\ du \in OfClass(DUClass) \cup {None}
    /\ \E g \in IdOfNewObject(objects) :
          LET new == RadioUnitInit(cell, rap, du, g)
          IN  Constructed(new.rec, new.topo, 2, "ok")

\* RadioAccessPoint.make_RadioUnit: a RadioUnit in the access point's cell,
\* then a link from the access point to it
RadioAccessPoint_make_RadioUnit(self, rap, du) ==
    /\ CanConstruct
    /\ self \in OfClass(RAPClass)
    /\ rap \in OfClass(RAPClass) \cup {None}
    /\ du \in OfClass(DUClass) \cup {None}
    /\ \E g \in IdOfNewObject(objects) :
          LET new == RadioUnitInit(objects[self].cell, rap, du, g)
          IN  Constructed(new.rec, register_link(new.topo, objects[self], new.rec), 2,
                          register_link_notice(new.topo, objects[self], new.rec))

\* ------------------------------------------------------------- power models

\* The keyword defaults of DistributedUnit.example_DU_power_model, in eighths
\* of a watt (2100, 90, 0.375, 0, 52, 23 and 75 W), and a second parameter
\* set with one 216 W GPU, which makes 840 W in all and a load of 0.4.
DefaultDUParams ==
    [P_supply_max |-> 16800, n_cpu |-> 2, P_cpu |-> 720, ram_GB |-> 384,
     P_ram_GB |-> 3, n_gpu |-> 0, P_gpu |-> 0, n_accel |-> 1, P_accel |-> 416,
     n_asic |-> 1, P_asic |-> 184, n_nic |-> 3, P_nic |-> 600]

GpuDUParams == [DefaultDUParams EXCEPT !.n_gpu = 1, !.P_gpu = 1728]

DUParamSets == {DefaultDUParams, GpuDUParams}

\* DistributedUnit.example_DU_power_model: the sum it stores and returns
DU_power_consumption(p) ==
    p.n_cpu * p.P_cpu + p.ram_GB * p.P_ram_GB + p.n_gpu * p.P_gpu
    + p.n_accel * p.P_accel + p.n_asic * p.P_asic + p.n_nic * p.P_nic

\* ... and the load it stores, power_consumption / P_supply_max, as a fraction
DU_p_load(p) == [num |-> DU_power_consumption(p), den |-> p.P_supply_max]

\* CentralisedUnit.example_CU_power_model: (1 - du_load) * 656.25
example_CU_power_model(du_load) ==
    ((du_load.den - du_load.num) * CuMaxPower) \div du_load.den

ZeroLoad == [num |-> 0, den |-> 1]

\* Faulty variant: a setter that takes numbers only
PowerModelSetterAccepts_numbers_only(v) == v.kind = "number"

\* the power_model setter accepts numbers and callables only
PowerModelSetterAccepts(v) == v.kind \in {"number", "callable"}

\* the power_model getter: the stored model, None when it is None
power_model(rec) == rec._power_model

\* DistributedUnit.__init__
make_DistributedUnit ==
    /\ CanConstruct
    /\ \E g \in IdOfNewObject(objects) :
          LET rec0 == SimObjectInit(<<>>, DUClass, g, id_iter + 1)
              rec1 == SetAttr(SetAttr(rec0, "power_consumption",
                                      DU_power_consumption(DefaultDUParams)),
                              "p_load", DU_p_load(DefaultDUParams))
              rec == SetAttr(rec1, "_power_model",
                             [kind |-> "number", value |-> rec1.power_consumption])
          IN  Constructed(rec, add_to_sim(topology, DUClass, g), 2, "ok")

\* CentralisedUnit.__init__
make_CentralisedUnit ==
    /\ CanConstruct
    /\ \E g \in IdOfNewObject(objects) :
          LET rec0 == SimObjectInit([du |-> None], CUClass, g, id_iter + 1)
              rec == SetAttr(rec0, "_power_model",
                             [kind |-> "number", value |-> example_CU_power_model(ZeroLoad)])
          IN  Constructed(rec, add_to_sim(topology, CUClass, g), 2, "ok")

\* ------------------------------------------------------------------- ports

\* RemoteRadioHead.make_rf_ports: port[0] .. port[n-1], all free
make_rf_ports(n) ==
    [i \in 0..(n-1) |-> [antenna_panel |-> None,
                         rf_output_max_watts |-> RfOutputMaxWatts,
                         rf_output_watts |-> 0]]

\* the default of the fronthaul_ports argument: two CPRI ports of 10 Gbps
DefaultFronthaulPorts == [n_ports |-> 2, protocol |-> "CPRI", data_rate_Gbps_max |-> 10]

\* fronthaul_ports arguments tried
FronthaulPortsArgs ==
    {DefaultFronthaulPorts,
     [n_ports |-> 1, protocol |-> "eCPRI", data_rate_Gbps_max |-> 25]}

\* the name under which a head holds the one dict make_fronthaul_ports creates
DefaultPortParams == "_default_port_params"

\* RemoteRadioHead.make_fronthaul_ports: one dict, held in
\* _default_port_params, and every fh_port[i] referring to that same dict
make_fronthaul_ports(rec, fh) ==
    SetAttr(SetAttr(rec, DefaultPortParams,
                    [protocol |-> fh.protocol, data_rate_Gbps |-> 0,
                     data_rate_Gbps_max |-> 10]),
            "_fronthaul_ports", [i \in 0..(fh.n_ports - 1) |-> DefaultPortParams])

\* the dict that fh_port[i] of a head refers to
FronthaulPort(rec, i) == rec[rec._fronthaul_ports[i]]

\* RemoteRadioHead.__init__.  self.du is set to None whatever du is passed;
\* with a rap the head links to the rap's cell (ValueError when that is None).
RemoteRadioHead_init(rap, ru, n, fh) ==
    /\ CanConstruct
    /\ rap \in OfClass(RAPClass) \cup {None}
    /\ ru \in OfClass(RUClass) \cup {None}
    /\ n \in 0..MaxPorts
    /\ fh \in FronthaulPortsArgs
    /\ \E g \in IdOfNewObject(objects) :
          LET rec0 == SimObjectInit([cell |-> None, rap |-> rap, ru |-> ru, du |-> None],
                                    RRHClass, g, id_iter + 1)
              rec1 == make_fronthaul_ports(
                          SetAttr(SetAttr(rec0, "n_rf_ports", n), "rf_ports",
                                  IF n > 0 THEN make_rf_ports(n)
                                           ELSE make_rf_ports(DefaultRfPorts)),
                          fh)
              t0 == add_to_sim(topology, RRHClass, g)
              rec2 == IF rap # None THEN [rec1 EXCEPT !.cell = objects[rap].cell] ELSE rec1
              t1 == IF ru # None THEN register_link(t0, rec2, objects[ru]) ELSE t0
          IN  IF rap = None
              THEN Constructed(rec2, t1, 2, "ok")
              ELSE IF rec2.cell = None
                   THEN Constructed(rec2, t0, 2, "ValueError")
                   ELSE LET tc == register_link(t0, rec2, objects[rec2.cell])
                        IN  Constructed(rec2,
                                IF ru # None THEN register_link(tc, rec2, objects[ru]) ELSE tc,
                                2, "ok")

\* Sim.make_RemoteRadioHead with the fronthaul_ports argument left at its default
make_RemoteRadioHead(rap, ru, n) == RemoteRadioHead_init(rap, ru, n, DefaultFronthaulPorts)

\* data rates written to a port, in Gbps
DataRates == {0, 5}

\* RemoteRadioHead.get_fronthaul_port(i=i)
get_fronthaul_port(h, i) ==
    /\ h \in OfClass(RRHClass)
    /\ IF i \in DOMAIN objects[h]._fronthaul_ports
       THEN result' = "ok" /\ returned' = [kind |-> "port", value |-> FronthaulPort(objects[h], i)]
       ELSE result' = "KeyError" /\ returned' = PyNone
    /\ UNCHANGED <<objects, id_iter, guid_map, topology, ticks, pc, elsewhere>>

\* rrh.get_fronthaul_port(i=i)['data_rate_Gbps'] = v: the write goes to the
\* dict the port refers to
set_fronthaul_data_rate(h, i, v) ==
    /\ h \in OfClass(RRHClass)
    /\ v \in DataRates
    /\ IF i \in DOMAIN objects[h]._fronthaul_ports
       THEN /\ objects' = [objects EXCEPT
                             ![h][objects[h]._fronthaul_ports[i]].data_rate_Gbps = v]
            /\ result' = "ok"
       ELSE /\ result' = "KeyError"
            /\ UNCHANGED objects
    /\ returned' = PyNone
    /\ UNCHANGED <<id_iter, guid_map, topology, ticks, pc, elsewhere>>

\* the first key of rf_ports in insertion order
FirstPort(ports) == CHOOSE i \in DOMAIN ports : \A j \in DOMAIN ports : i <= j

\* Faulty variant: a port loop that adds a slot for the panel when the first is taken
AssignPort_grow(ports, ap) ==
    IF ports[0].antenna_panel = None
    THEN [ports EXCEPT ![0].antenna_panel = ap]
    ELSE (Cardinality(DOMAIN ports) :> [antenna_panel |-> ap,
                                        rf_output_max_watts |-> RfOutputMaxWatts,
                                        rf_output_watts |-> 0]) @@ ports

\* the loop of make_AntennaPanel over the ports: the raise sits in the loop
\* body after the test, so the first port is taken when it is free and the
\* loop is left by the exception when it is not; no other port is looked at.
PortLoopRaises(ports) == ports[FirstPort(ports)].antenna_panel # None

AssignPort(ports, ap) ==
    IF PortLoopRaises(ports) THEN ports
    ELSE [ports EXCEPT ![FirstPort(ports)].antenna_panel = ap]

\* RemoteRadioHead.make_AntennaPanel.  The panel is constructed, registered
\* and linked before the ports are looked at.
make_AntennaPanel(rrh) ==
    /\ CanConstruct
    /\ rrh \in OfClass(RRHClass)
    /\ \E g \in IdOfNewObject(objects) :
          LET ap == SimObjectInit([azimuth |-> 0, elevation |-> 0, pattern |-> None],
                                  APClass, g, id_iter)
              apref == Len(objects) + 1
              self == objects[rrh]
              t0 == add_to_sim(topology, APClass, g)
              t1 == add_to_sim(t0, self.class_name, self.guid)
              t2 == register_link(t1, self, ap)
          IN  /\ objects' = Append(
                    [objects EXCEPT ![rrh].rf_ports = AssignPort(@, apref)], ap)
              /\ id_iter' = id_iter + 1
              /\ guid_map' = GuidMapSetDefault(
                                 GuidMapSetDefault(guid_map, g, apref), self.guid, rrh)
              /\ topology' = t2
              /\ ticks' = Append(ticks, 0)
              /\ pc' = Append(pc, AtYield)
              /\ result' = IF PortLoopRaises(self.rf_ports)
                           THEN "Exception: No free antenna ports" ELSE "ok"
              /\ returned' = PyNone
              /\ UNCHANGED elsewhere

\* the names a RemoteRadioHead answers to: its methods, those of SimObject,
\* and the attributes its constructor assigns
RemoteRadioHeadAttributes ==
    {"make_rf_ports", "get_rf_port", "make_fronthaul_ports", "get_fronthaul_port",
     "make_AntennaPanel", "loop", "get_cls_name", "get_plural", "add_to_sim",
     "register_link", "deregister_link", "power_model", "id_iter", "idx", "guid",
     "class_name", "label", "sim", "interval", "cell", "rap", "ru", "du",
     "n_rf_ports", "rf_ports", "_default_port_params", "_fronthaul_ports", "verbosity"}

\* rrh.release(i), or the same under any other name for giving a port back:
\* the class has no such method, and nothing else in the module sets
\* antenna_panel back to None
release(h, i) ==
    /\ h \in OfClass(RRHClass)
    /\ i \in DOMAIN objects[h].rf_ports
    /\ "release" \notin RemoteRadioHeadAttributes
    /\ result' = "AttributeError"
    /\ returned' = PyNone
    /\ UNCHANGED <<objects, id_iter, guid_map, topology, ticks, pc, elsewhere>>

\* RemoteRadioHead.get_rf_port: the asserts on i, then self.antenna_ports,
\* which the constructor never sets (the ports are in self.rf_ports)
get_rf_port(h, i) ==
    /\ h \in OfClass(RRHClass)
    /\ i \in 0..(MaxPorts + 1)
    /\ IF ~(0 < i /\ i <= objects[h].n_rf_ports)
       THEN result' = "AssertionError" /\ returned' = PyNone
       ELSE IF ~HasAttr(objects[h], "antenna_ports")
       THEN result' = "AttributeError" /\ returned' = PyNone
       ELSE IF i \notin DOMAIN objects[h].antenna_ports
       THEN result' = "KeyError" /\ returned' = PyNone
       ELSE result' = "ok" /\ returned' = [kind |-> "port", value |-> objects[h].antenna_ports[i]]
    /\ UNCHANGED <<objects, id_iter, guid_map, topology, ticks, pc, elsewhere>>

\* --------------------------------------------------------------- operations

\* SimObject.register_link called by the user on two different registered objects
RegisterLink(a, b) ==
    /\ a \in Refs /\ b \in Refs /\ a # b
    /\ topology' = register_link(topology, objects[a], objects[b])
    /\ result' = register_link_notice(topology, objects[a], objects[b])
    /\ UNCHANGED <<objects, id_iter, guid_map, ticks, pc>>
    /\ returned' = PyNone
    /\ UNCHANGED elsewhere

\* SimObject.deregister_link: self._sim is read first and no SimObject has
\* that attribute, so the call raises before it touches the topology.
DeregisterLink(a, b) ==
    /\ a \in Refs /\ b \in Refs
    /\ IF ~HasAttr(objects[a], "_sim")
       THEN /\ result' = "AttributeError"
            /\ UNCHANGED topology
       ELSE /\ topology' =
                 [topology EXCEPT
                    ![objects[a].class_name][objects[a].guid] = RemoveFirst(@, objects[b].guid),
                    ![objects[b].class_name][objects[b].guid] = RemoveFirst(@, objects[a].guid)]
            /\ result' = "ok"
    /\ UNCHANGED <<objects, id_iter, guid_map, ticks, pc>>
    /\ returned' = PyNone
    /\ UNCHANGED elsewhere

\* CentralisedUnit.attach_to_du: records du, then reads self.cu, which no
\* CentralisedUnit has, so register_link is never reached.
attach_to_du(cu, du) ==
    /\ cu \in OfClass(CUClass) /\ du \in OfClass(DUClass)
    /\ objects' = [objects EXCEPT ![cu].du = du]
    /\ IF HasAttr(objects[cu], "cu")
       THEN /\ topology' = register_link(topology, objects[cu], objects[objects[cu].cu])
            /\ result' = "ok"
       ELSE /\ result' = "AttributeError"
            /\ UNCHANGED topology
    /\ UNCHANGED <<id_iter, guid_map, ticks, pc>>
    /\ returned' = PyNone
    /\ UNCHANGED elsewhere

\* DistributedUnit.attach_to_rrh
attach_to_rrh(du, rrh) ==
    /\ du \in OfClass(DUClass) /\ rrh \in OfClass(RRHClass)
    /\ objects' = [objects EXCEPT ![du] = SetAttr(@, "rrh", rrh)]
    /\ topology' = register_link(topology, objects[du], objects[rrh])
    /\ result' = register_link_notice(topology, objects[du], objects[rrh])
    /\ UNCHANGED <<id_iter, guid_map, ticks, pc>>
    /\ returned' = PyNone
    /\ UNCHANGED elsewhere

\* DistributedUnit.example_DU_power_model called on an existing unit: it
\* overwrites power_consumption and p_load and returns the sum.
example_DU_power_model(du, p) ==
    /\ du \in OfClass(DUClass) /\ p \in DUParamSets
    /\ objects' = [objects EXCEPT ![du].power_consumption = DU_power_consumption(p),
                                  ![du].p_load = DU_p_load(p)]
    /\ result' = "ok"
    /\ UNCHANGED <<id_iter, guid_map, topology, ticks, pc>>
    /\ returned' = [kind |-> "number", value |-> DU_power_consumption(p)]
    /\ UNCHANGED elsewhere

\* values handed to the power_model setter: 10 W (80 eighths), 0 W, and a string
PowerModelArgs ==
    {[kind |-> "number", value |-> 80], [kind |-> "number", value |-> 0],
     [kind |-> "str", value |-> 0]}

\* the same, and a function and None
PowerModelValues ==
    PowerModelArgs \cup {[kind |-> "callable", value |-> 0], PyNone}

\* the power_model setter
set_power_model(o, v) ==
    /\ o \in Refs /\ v \in PowerModelValues
    /\ IF PowerModelSetterAccepts(v)
       THEN /\ objects' = [objects EXCEPT ![o] = SetAttr(@, "_power_model", v)]
            /\ result' = "ok"
       ELSE /\ result' = "ValueError"
            /\ UNCHANGED objects
    /\ UNCHANGED <<id_iter, guid_map, topology, ticks, pc>>
    /\ returned' = PyNone
    /\ UNCHANGED elsewhere

\* ------------------------------------------------- link calls on any operand

\* isinstance(other, SimObject)
IsSimObject(x) == x.kind = "object"

\* operands that are no SimObject: None, a GUID in place of its object, a label
NonSimObjectOperands ==
    {PyNone, [kind |-> "int", value |-> 1], [kind |-> "str", value |-> 0]}

LinkOperands == {PyObject(o) : o \in Refs} \cup NonSimObjectOperands

OtherIsNotSimObject == "ValueError: other argument MUST be a SimObject() object"

\* Faulty variant: register_link that tests its operand after its own list is written
register_link_late_test(topo, self, other) ==
    IF ~IsSimObject(other)
    THEN [topo |-> [topo EXCEPT ![self.class_name][self.guid] = Append(@, other.value)],
          outcome |-> OtherIsNotSimObject]
    ELSE [topo |-> register_link(topo, self, objects[other.value]),
          outcome |-> register_link_notice(topo, self, objects[other.value])]

\* SimObject.register_link from its first line: the isinstance test, then the
\* two appends.  self.sim is a Sim for every object add_to_sim has accepted.
register_link_guarded(topo, self, other) ==
    IF ~IsSimObject(other)
    THEN [topo |-> topo, outcome |-> OtherIsNotSimObject]
    ELSE [topo |-> register_link(topo, self, objects[other.value]),
          outcome |-> register_link_notice(topo, self, objects[other.value])]

\* SimObject.deregister_link: the assert, then self._sim (which __init__ never
\* sets: the attribute is sim), then the removal on self's side, then
\* self._guid (never set either: the attribute is guid).
deregister_link(topo, self, other) ==
    IF ~IsSimObject(other) THEN [topo |-> topo, outcome |-> "AssertionError"]
    ELSE IF ~HasAttr(self, "_sim") \/ ~HasAttr(objects[other.value], "_sim")
    THEN [topo |-> topo, outcome |-> "AttributeError"]
    ELSE LET o == objects[other.value]
             t1 == [topo EXCEPT ![self.class_name][self.guid] = RemoveFirst(@, o.guid)]
         IN  IF ~HasAttr(self, "_guid")
             THEN [topo |-> t1, outcome |-> "AttributeError"]
             ELSE IF self._guid \in Range(t1[o.class_name][o.guid])
                  THEN [topo |-> [t1 EXCEPT ![o.class_name][o.guid] = RemoveFirst(@, self.guid)],
                        outcome |-> "ok"]
                  ELSE [topo |-> t1, outcome |-> "does not exist"]

\* a.register_link(x) for any operand x but a itself
RegisterLinkWith(a, x) ==
    /\ a \in Refs /\ x \in LinkOperands /\ x # PyObject(a)
    /\ LET r == register_link_guarded(topology, objects[a], x)
       IN  /\ topology' = r.topo
           /\ result' = r.outcome
    /\ UNCHANGED <<objects, id_iter, guid_map, ticks, pc>>
    /\ returned' = PyNone
    /\ UNCHANGED elsewhere

\* a.deregister_link(x) for any operand x
DeregisterLinkWith(a, x) ==
    /\ a \in Refs /\ x \in LinkOperands
    /\ LET r == deregister_link(topology, objects[a], x)
       IN  /\ topology' = r.topo
           /\ result' = r.outcome
    /\ UNCHANGED <<objects, id_iter, guid_map, ticks, pc>>
    /\ returned' = PyNone
    /\ UNCHANGED elsewhere

\* o.add_to_sim(sim) on a node that __init__ has registered already
AddToSim(o) ==
    /\ o \in Refs
    /\ topology' = add_to_sim(topology, objects[o].class_name, objects[o].guid)
    /\ guid_map' = GuidMapSetDefault(guid_map, objects[o].guid, o)
    /\ result' = "Added"
    /\ UNCHANGED <<objects, id_iter, ticks, pc>>
    /\ returned' = PyNone
    /\ UNCHANGED elsewhere

\* ------------------------------------------------------------ UserEquipment

\* UE.attach(cell) of the base simulator, as far as this model reads it: the
\* serving cell becomes `cell`.
attach(ue, cell) ==
    /\ ue \in OfClass(UEClass) /\ cell \in OfClass(CellClass)
    /\ objects[ue].serving_cell # cell
    /\ objects' = [objects EXCEPT ![ue].serving_cell = cell]
    /\ result' = "ok"
    /\ UNCHANGED <<id_iter, guid_map, topology, ticks, pc>>
    /\ returned' = PyNone
    /\ UNCHANGED elsewhere

\* Faulty variant: update_cell_guid that adopts the new GUID without keeping the old
update_cell_guid_no_shift(self, serving_guid) ==
    [self EXCEPT !.current_cell_guid = serving_guid]

\* Faulty variant: update_cell_guid without its early return
update_cell_guid_no_return(self, serving_guid) ==
    [self EXCEPT !.last_cell_guid = self.current_cell_guid,
                 !.current_cell_guid = serving_guid]

\* AIMMeeUE.update_cell_guid, given the serving cell's GUID
update_cell_guid(self, serving_guid) ==
    IF serving_guid = self.current_cell_guid THEN self
    ELSE [self EXCEPT !.last_cell_guid = self.current_cell_guid,
                      !.current_cell_guid = serving_guid]

\* Faulty variant: update_ue_topology that links the current cell and unlinks nothing
update_ue_topology_no_unlink(topo, self) ==
    IF self.last_cell_guid = self.current_cell_guid THEN topo
    ELSE LET cur == self.current_cell_guid
             t2 == IF self.guid \notin Range(topo[CellClass][cur])
                   THEN [topo EXCEPT ![CellClass][cur] = Append(@, self.guid)]
                   ELSE topo
         IN  IF cur \notin Range(t2[UEClass][self.guid])
             THEN [t2 EXCEPT ![UEClass][self.guid] = Append(@, cur)]
             ELSE t2

\* Faulty variant: update_ue_topology that appends without its membership tests
update_ue_topology_always_append(topo, self) ==
    IF self.guid = None THEN topo
    ELSE IF self.last_cell_guid = self.current_cell_guid THEN topo
    ELSE LET last == self.last_cell_guid
             cur == self.current_cell_guid
             t1 == IF last # None
                   THEN [topo EXCEPT ![CellClass][last] = RemoveAll(@, self.guid),
                                     ![UEClass][self.guid] = RemoveAll(@, last)]
                   ELSE topo
         IN  [t1 EXCEPT ![CellClass][cur] = Append(@, self.guid),
                        ![UEClass][self.guid] = Append(@, cur)]

\* AIMMeeUE.update_ue_topology
update_ue_topology(topo, self) ==
    IF self.guid = None THEN topo
    ELSE IF self.last_cell_guid = self.current_cell_guid THEN topo
    ELSE LET last == self.last_cell_guid
             cur == self.current_cell_guid
             t1 == IF last # None
                   THEN [topo EXCEPT ![CellClass][last] = RemoveAll(@, self.guid),
                                     ![UEClass][self.guid] = RemoveAll(@, last)]
                   ELSE topo
             t2 == IF self.guid \notin Range(t1[CellClass][cur])
                   THEN [t1 EXCEPT ![CellClass][cur] = Append(@, self.guid)]
                   ELSE t1
         IN  IF cur \notin Range(t2[UEClass][self.guid])
             THEN [t2 EXCEPT ![UEClass][self.guid] = Append(@, cur)]
             ELSE t2

\* one iteration of AIMMeeUE.loop.  Without a serving cell,
\* self.serving_cell.guid raises and nothing is changed.
UE_loop(ue) ==
    /\ ue \in OfClass(UEClass)
    /\ IF objects[ue].serving_cell = None
       THEN /\ result' = "AttributeError"
            /\ UNCHANGED <<objects, topology>>
       ELSE LET self == update_cell_guid(objects[ue],
                                         objects[objects[ue].serving_cell].guid)
            IN  /\ objects' = [objects EXCEPT ![ue] = self]
                /\ topology' = update_ue_topology(topology, self)
                /\ result' = "ok"
    /\ UNCHANGED <<id_iter, guid_map, ticks, pc>>
    /\ returned' = PyNone
    /\ UNCHANGED elsewhere

\* classes whose loop() only waits: while True: yield timeout(self.interval)
WaitLoopClasses == {RAPClass, RUClass, DUClass, CUClass, RRHClass, APClass}

\* one iteration of such a loop: nothing but the wait
loop(o) ==
    /\ o \in Refs
    /\ objects[o].class_name \in WaitLoopClasses
    /\ ticks[o] < MaxTicks
    /\ ticks' = [ticks EXCEPT ![o] = @ + 1]
    /\ result' = "ok"
    /\ UNCHANGED <<objects, id_iter, guid_map, topology, pc>>
    /\ returned' = PyNone
    /\ UNCHANGED elsewhere

\* --------------------------------------------------------------- the reads

\* the attributes Sim.__init__ assigns, and those of the base simulator that
\* this module reads on a Sim (cells, UEs, cell_locations, env)
SimAttributes ==
    {"guid", "class_name", "idx", "label", "origin", "topology", "guid_map",
     "raps", "rus", "rrhs", "until", "cells", "UEs", "cell_locations", "env"}

PyInt(n) == [kind |-> "int", value |-> n]

\* arguments tried for get_object_from_guid: every address, None and a label
GuidArgs == {PyInt(g) : g \in 1..MaxGuid} \cup {PyNone, [kind |-> "str", value |-> 0]}

\* Sim.get_object_from_guid: the isinstance test, then self.sim.guid_map, read
\* on the Sim itself, which has guid_map but no attribute sim.
get_object_from_guid(guid) ==
    /\ guid \in GuidArgs
    /\ IF guid.kind # "int"
       THEN result' = "ValueError: must be an integer" /\ returned' = PyNone
       ELSE IF "sim" \notin SimAttributes
       THEN result' = "AttributeError" /\ returned' = PyNone
       ELSE IF guid.value \notin DOMAIN guid_map
       THEN result' = "ValueError: not found in simulation" /\ returned' = PyNone
       ELSE result' = "ok" /\ returned' = PyObject(guid_map[guid.value])
    /\ UNCHANGED <<objects, id_iter, guid_map, topology, ticks, pc, elsewhere>>

\* reading o.power_model: the getter reads self._power_model, which only the
\* setter assigns
read_power_model(o) ==
    /\ o \in Refs
    /\ IF ~HasAttr(objects[o], "_power_model")
       THEN result' = "AttributeError" /\ returned' = PyNone
       ELSE IF objects[o]._power_model = PyNone
       THEN result' = "No energy model found" /\ returned' = PyNone
       ELSE result' = "ok" /\ returned' = power_model(objects[o])
    /\ UNCHANGED <<objects, id_iter, guid_map, topology, ticks, pc, elsewhere>>

\* ------------------------------------------------ the UE loop, step by step

\* a generator runs from where it is resumed to its next yield: nothing else
\* is resumed, and no other code of the simulation runs, while a loop is in
\* the middle of its iteration.  o = None stands for code outside the loops.
CanResumePreemptively(o) == TRUE

CanResume(o) == \A q \in DOMAIN pc : q # o => pc[q] = AtYield

UpdatedCellGuid == "update_cell_guid done"

\* AIMMeeUE.loop resumed: s.update_cell_guid()
UE_loop_update_cell_guid(ue) ==
    /\ ue \in OfClass(UEClass)
    /\ pc[ue] = AtYield
    /\ CanResume(ue)
    /\ IF objects[ue].serving_cell = None
       THEN /\ result' = "AttributeError"
            /\ UNCHANGED <<objects, pc>>
       ELSE /\ objects' = [objects EXCEPT ![ue] =
                             update_cell_guid(@, objects[objects[ue].serving_cell].guid)]
            /\ pc' = [pc EXCEPT ![ue] = UpdatedCellGuid]
            /\ result' = "ok"
    /\ UNCHANGED <<id_iter, guid_map, topology, ticks>>
    /\ returned' = PyNone
    /\ UNCHANGED elsewhere

\* ... then s.update_ue_topology(), the reports, and the yield
UE_loop_update_ue_topology(ue) ==
    /\ ue \in OfClass(UEClass)
    /\ pc[ue] = UpdatedCellGuid
    /\ CanResume(ue)
    /\ topology' = update_ue_topology(topology, objects[ue])
    /\ pc' = [pc EXCEPT ![ue] = AtYield]
    /\ result' = "ok"
    /\ UNCHANGED <<objects, id_iter, guid_map, ticks>>
    /\ returned' = PyNone
    /\ UNCHANGED elsewhere

\* code that runs between the iterations of the loops
BetweenTicks(A) == CanResume(None) /\ A

\* ------------------------------------------------------------ specification

Init ==
    /\ objects = <<>>
    /\ id_iter = 0
    /\ guid_map = <<>>
    /\ topology = <<>>
    /\ ticks = <<>>
    /\ pc = <<>>
    /\ result = "ok"
    /\ returned = PyNone
    /\ other_sim = [objects |-> <<>>, guid_map |-> <<>>, topology |-> <<>>]
    /\ clock = [now |-> 0, wake |-> <<>>]
    /\ config_file = [exists |-> FALSE, text |-> <<>>, written |-> [t |-> "obj", n |-> 0, s |-> <<>>, m |-> <<>>],
                      opened |-> FALSE]
    /\ standalone = [id |-> 0, panels |-> <<>>]

RefsOrNone == 0..MaxObjects

\* the topology, registry and port operations on every node class
Next ==
    \/ make_cell
    \/ make_UE
    \/ \E c \in RefsOrNone : make_RadioAccessPoint(c)
    \/ \E c, r, d \in RefsOrNone : make_RadioUnit(c, r, d)
    \/ \E s \in Refs : \E r, d \in RefsOrNone : RadioAccessPoint_make_RadioUnit(s, r, d)
    \/ make_DistributedUnit
    \/ make_CentralisedUnit
    \/ \E r, u \in RefsOrNone : \E n \in 0..MaxPorts : make_RemoteRadioHead(r, u, n)
    \/ \E h \in Refs : make_AntennaPanel(h)
    \/ \E a, b \in Refs : RegisterLink(a, b)
    \/ \E a, b \in Refs : DeregisterLink(a, b)
    \/ \E c, d \in Refs : attach_to_du(c, d)
    \/ \E d, h \in Refs : attach_to_rrh(d, h)
    \/ \E u, c \in Refs : attach(u, c)
    \/ \E u \in Refs : UE_loop(u)

Spec == Init /\ [][Next]_vars

\* cells and UEs whose only link changes are those of the UE's own ticks
NextServing ==
    \/ make_cell
    \/ make_UE
    \/ \E u, c \in Refs : attach(u, c)
    \/ \E u \in Refs : UE_loop(u)

SpecServing == Init /\ [][NextServing]_vars

\* radio heads and their antenna panels
NextPorts ==
    \/ \E n \in 0..MaxPorts : make_RemoteRadioHead(None, None, n)
    \/ \E h \in Refs : make_AntennaPanel(h)
    \/ \E h \in Refs : \E i \in 0..(MaxPorts + 1) : get_rf_port(h, i)
    \/ \E h \in Refs : \E i \in 0..(MaxPorts + 1) : release(h, i)

SpecPorts == Init /\ [][NextPorts]_vars

\* the power models of the distributed and centralised units
NextPower ==
    \/ make_DistributedUnit
    \/ make_CentralisedUnit
    \/ \E c, d \in Refs : attach_to_du(c, d)
    \/ \E d \in Refs : \E p \in DUParamSets : example_DU_power_model(d, p)

SpecPower == Init /\ [][NextPower]_vars

\* nodes with a power model set by the user, and their pure-wait loops
NextLoop ==
    \/ make_RadioUnit(None, None, None)
    \/ \E o \in Refs : \E v \in PowerModelArgs : set_power_model(o, v)
    \/ \E o \in Refs : loop(o)
    \/ \E o \in Refs : read_power_model(o)

SpecLoop == Init /\ [][NextLoop]_vars

\* link, unlink, re-registration and GUID resolution on cells and UEs
NextLinks ==
    \/ make_cell
    \/ make_UE
    \/ \E a \in Refs : \E x \in LinkOperands : RegisterLinkWith(a, x)
    \/ \E a \in Refs : \E x \in LinkOperands : DeregisterLinkWith(a, x)
    \/ \E o \in Refs : AddToSim(o)
    \/ \E g \in GuidArgs : get_object_from_guid(g)

SpecLinks == Init /\ [][NextLinks]_vars

\* the UE loops resumed one at a time, each running to its yield
NextTick ==
    \/ BetweenTicks(make_cell)
    \/ BetweenTicks(make_UE)
    \/ \E u, c \in Refs : BetweenTicks(attach(u, c))
    \/ \E u \in Refs : UE_loop_update_cell_guid(u)
    \/ \E u \in Refs : UE_loop_update_ue_topology(u)

SpecTick == Init /\ [][NextTick]_vars

\* ------------------------------------------------------------ a second Sim

\* the node classes constructed in the second Sim
OtherSimClasses == {CellClass, UEClass}

\* AIMMeeCell(other, ...) or AIMMeeUE(other, ...): the same constructors, run
\* on another Sim.  guid_map and topology are attributes of that Sim; id_iter
\* is an attribute of the class SimObject, and id() is one address space.
other_sim_make(cls) ==
    /\ cls \in OtherSimClasses
    /\ Len(objects) + Len(other_sim.objects) < MaxObjects
    /\ \E g \in IdOfNewObject(objects) :
          LET rec0 == IF cls = CellClass THEN [radius |-> 0, xyz |-> CellXyz]
                      ELSE [last_cell_guid |-> None, current_cell_guid |-> None,
                            serving_cell |-> None]
              rec == SimObjectInit(rec0, cls, g, id_iter + 1)
          IN  other_sim' =
                 [objects |-> Append(other_sim.objects, rec),
                  guid_map |-> GuidMapSetDefault(other_sim.guid_map, g,
                                                 Len(other_sim.objects) + 1),
                  topology |-> add_to_sim(other_sim.topology, cls, g)]
    /\ id_iter' = id_iter + 2
    /\ result' = "ok"
    /\ returned' = PyNone
    /\ UNCHANGED <<objects, guid_map, topology, ticks, pc, clock, config_file, standalone>>

\* register_link between two different nodes of the second Sim
other_sim_register_link(a, b) ==
    /\ a \in DOMAIN other_sim.objects /\ b \in DOMAIN other_sim.objects /\ a # b
    /\ other_sim' = [other_sim EXCEPT !.topology =
                        register_link(@, other_sim.objects[a], other_sim.objects[b])]
    /\ result' = register_link_notice(other_sim.topology, other_sim.objects[a],
                                      other_sim.objects[b])
    /\ returned' = PyNone
    /\ UNCHANGED <<objects, id_iter, guid_map, topology, ticks, pc, clock, config_file, standalone>>

\* a.register_link(b) with a on the first Sim and b on the second: self's list
\* is looked up in self.sim.topology, other's in other.sim.topology
register_link_across(a, b) ==
    /\ a \in Refs /\ b \in DOMAIN other_sim.objects
    /\ LET self == objects[a]
           other == other_sim.objects[b]
           self_links_list == topology[self.class_name][self.guid]
           other_links_list == other_sim.topology[other.class_name][other.guid]
       IN  /\ topology' = IF other.guid \notin Range(self_links_list)
                          THEN [topology EXCEPT ![self.class_name][self.guid] =
                                                   Append(@, other.guid)]
                          ELSE topology
           /\ other_sim' = IF self.guid \notin Range(other_links_list)
                           THEN [other_sim EXCEPT
                                   !.topology[other.class_name][other.guid] =
                                       Append(@, self.guid)]
                           ELSE other_sim
           /\ result' = IF other.guid \in Range(self_links_list)
                           \/ self.guid \in Range(other_links_list)
                        THEN "already exists" ELSE "ok"
    /\ returned' = PyNone
    /\ UNCHANGED <<objects, id_iter, guid_map, ticks, pc, clock, config_file, standalone>>

\* the operations on the first Sim that run beside a second one
OnThisSim ==
    \/ make_cell
    \/ make_UE
    \/ \E a, b \in Refs : RegisterLink(a, b)
    \/ \E u, c \in Refs : attach(u, c)
    \/ \E u \in Refs : UE_loop(u)

\* cells and UEs of one Sim, linked by the UE ticks and by the user
NextCells ==
    \/ OnThisSim
    \/ \E a, b \in Refs : DeregisterLink(a, b)

SpecCells == Init /\ [][NextCells]_vars

\* two Sims in one process
NextSims ==
    \/ OnThisSim
    \/ \E cls \in OtherSimClasses : other_sim_make(cls)
    \/ \E a, b \in 1..MaxObjects : other_sim_register_link(a, b)
    \/ \E a, b \in 1..MaxObjects : register_link_across(a, b)

SpecSims == Init /\ [][NextSims]_vars

\* ------------------------------------------------------- the loops in time

\* the time at which o.loop() is resumed next: a loop is first run when the
\* simulation starts, at time 0, and after that when its timeout is over
WakeOf(o) == IF o \in DOMAIN clock.wake THEN clock.wake[o] ELSE 0

LoopNodes == {o \in Refs : objects[o].class_name \in WaitLoopClasses}

\* loop() of a node resumed by sim.run(until=self.until): the loop with the
\* earliest wake time runs, at that time, while the time is before the
\* horizon; its body is `yield self.sim.env.timeout(self.interval)`.
timed_loop(o) ==
    /\ o \in LoopNodes
    /\ ticks[o] < MaxTicks
    /\ \A q \in LoopNodes : WakeOf(o) <= WakeOf(q)
    /\ WakeOf(o) < Horizon
    /\ clock' = [now |-> WakeOf(o),
                 wake |-> (o :> (WakeOf(o) + objects[o].interval)) @@ clock.wake]
    /\ ticks' = [ticks EXCEPT ![o] = @ + 1]
    /\ result' = "ok"
    /\ returned' = PyNone
    /\ UNCHANGED <<objects, id_iter, guid_map, topology, pc, other_sim, config_file, standalone>>

\* the nodes are made before the simulation is run
BeforeRun(A) == clock.wake = <<>> /\ A

\* radio units and distributed units, then their loops run to the horizon
NextHorizon ==
    \/ BeforeRun(make_RadioUnit(None, None, None))
    \/ BeforeRun(make_DistributedUnit)
    \/ \E o \in Refs : timed_loop(o)

SpecHorizon == Init /\ [][NextHorizon]_vars

\* ------------------------------------------------------ the configuration

\* JSON documents: numbers, strings over a two-letter alphabet, the empty
\* object, and objects of one member, nested twice at most
Letters == {"a", "b"}

JsonStrings == {<<>>} \cup {<<c>> : c \in Letters}

\* (n is the number, or the number of members; s the string, or the key; m the
\* member's value)
JsonNum(n) == [t |-> "num", n |-> n, s |-> <<>>, m |-> <<>>]

JsonStr(str) == [t |-> "str", n |-> 0, s |-> str, m |-> <<>>]

JsonEmptyObject == [t |-> "obj", n |-> 0, s |-> <<>>, m |-> <<>>]

JsonObject(k, doc) == [t |-> "obj", n |-> 1, s |-> k, m |-> <<doc>>]

JsonScalars == {JsonNum(n) : n \in 0..MaxDigit} \cup {JsonStr(str) : str \in JsonStrings}

JsonFlat == JsonScalars \cup {JsonEmptyObject}
            \cup {JsonObject(k, d) : k \in JsonStrings, d \in JsonScalars}

JsonDocs == JsonFlat \cup {JsonObject(k, d) : k \in JsonStrings, d \in JsonFlat}

DigitChars == <<"0", "1", "2", "3", "4", "5", "6", "7", "8", "9">>

Quote == "\""

\* json.dump(data, file): the text it writes, with ": " after a key
RECURSIVE json_dump(_)
json_dump(doc) ==
    IF doc.t = "num" THEN <<DigitChars[doc.n + 1]>>
    ELSE IF doc.t = "str" THEN <<Quote>> \o doc.s \o <<Quote>>
    ELSE IF doc.n = 0 THEN <<"{", "}">>
    ELSE <<"{", Quote>> \o doc.s \o <<Quote, ":", " ">> \o json_dump(doc.m[1]) \o <<"}">>

NoParse == [ok |-> FALSE, doc |-> JsonEmptyObject, rest |-> <<>>]

RECURSIVE SkipWhitespace(_)
SkipWhitespace(text) ==
    IF text # <<>> /\ text[1] = " " THEN SkipWhitespace(Tail(text)) ELSE text

\* a string literal at the head of text (text[1] is the opening quote)
ParseString(text) ==
    LET closing == {j \in 2..Len(text) : text[j] = Quote}
    IN  IF closing = {} THEN NoParse
        ELSE LET j == CHOOSE k \in closing : \A m \in closing : k <= m
             IN  [ok |-> TRUE, doc |-> JsonStr(SubSeq(text, 2, j - 1)),
                  rest |-> SubSeq(text, j + 1, Len(text))]

\* the JSON value at the head of text, and the text after it
RECURSIVE ParseValue(_)
ParseValue(text) ==
    LET t == SkipWhitespace(text)
    IN  IF t = <<>> THEN NoParse
        ELSE IF \E n \in 0..9 : DigitChars[n + 1] = t[1]
        THEN [ok |-> TRUE,
              doc |-> JsonNum(CHOOSE n \in 0..9 : DigitChars[n + 1] = t[1]),
              rest |-> Tail(t)]
        ELSE IF t[1] = Quote THEN ParseString(t)
        ELSE IF t[1] # "{" THEN NoParse
        ELSE LET t2 == SkipWhitespace(Tail(t))
             IN  IF t2 = <<>> THEN NoParse
                 ELSE IF t2[1] = "}"
                 THEN [ok |-> TRUE, doc |-> JsonEmptyObject, rest |-> Tail(t2)]
                 ELSE IF t2[1] # Quote THEN NoParse
                 ELSE LET k == ParseString(t2)
                          t3 == SkipWhitespace(k.rest)
                      IN  IF ~k.ok \/ t3 = <<>> THEN NoParse
                          ELSE IF t3[1] # ":" THEN NoParse
                          ELSE LET val == ParseValue(Tail(t3))
                                   t4 == SkipWhitespace(val.rest)
                               IN  IF ~val.ok \/ t4 = <<>> THEN NoParse
                                   ELSE IF t4[1] # "}" THEN NoParse
                                   ELSE [ok |-> TRUE,
                                         doc |-> JsonObject(k.doc.s, val.doc),
                                         rest |-> Tail(t4)]

\* json.load(file): the one value the text holds
json_load(text) ==
    LET r == ParseValue(text)
    IN  IF r.ok /\ SkipWhitespace(r.rest) = <<>> THEN r ELSE NoParse

\* the test's set-up: json.dump(config_data, file) into the configuration file
write_config(doc) ==
    /\ doc \in JsonDocs
    /\ config_file' = [exists |-> TRUE, text |-> json_dump(doc), written |-> doc,
                       opened |-> FALSE]
    /\ result' = "ok"
    /\ returned' = PyNone
    /\ UNCHANGED <<objects, id_iter, guid_map, topology, ticks, pc, other_sim, clock, standalone>>

MaxFileSizeArgs == (0..MaxSizeArg) \cup {DefaultMaxFileSizeBytes}

SizeExceeded == "ValueError: File size exceeds maximum size"

\* Faulty variant: the size test with >= for >
FileTooLarge_inclusive(file_size, max_file_size_bytes) == file_size >= max_file_size_bytes

\* if file_size > max_file_size_bytes
FileTooLarge(file_size, max_file_size_bytes) == file_size > max_file_size_bytes

\* ConfigLoader.load(config_file, max_file_size_bytes): stat, the size test,
\* then open and json.load
ConfigLoader_load(max_file_size_bytes) ==
    /\ max_file_size_bytes \in MaxFileSizeArgs
    /\ IF ~config_file.exists
       THEN /\ result' = "FileNotFoundError"
            /\ returned' = PyNone
            /\ UNCHANGED config_file
       ELSE IF FileTooLarge(Len(config_file.text), max_file_size_bytes)
       THEN /\ result' = SizeExceeded
            /\ returned' = PyNone
            /\ config_file' = [config_file EXCEPT !.opened = FALSE]
       ELSE /\ config_file' = [config_file EXCEPT !.opened = TRUE]
            /\ IF json_load(config_file.text).ok
               THEN /\ result' = "ok"
                    /\ returned' = [kind |-> "json", value |-> json_load(config_file.text).doc]
               ELSE /\ result' = "JSONDecodeError"
                    /\ returned' = PyNone
    /\ UNCHANGED <<objects, id_iter, guid_map, topology, ticks, pc, other_sim, clock, standalone>>

\* radio heads and the data rates of their fronthaul ports
NextFronthaul ==
    \/ \E n \in 1..MaxPorts : \E fh \in FronthaulPortsArgs :
          RemoteRadioHead_init(None, None, n, fh)
    \/ \E h \in Refs : \E i \in 0..MaxPorts : get_fronthaul_port(h, i)
    \/ \E h \in Refs : \E i \in 0..MaxPorts : \E v \in DataRates :
          set_fronthaul_data_rate(h, i, v)

SpecFronthaul == Init /\ [][NextFronthaul]_vars

\* power models set and read on units made with and without one
NextModels ==
    \/ make_RadioUnit(None, None, None)
    \/ make_DistributedUnit
    \/ \E o \in Refs : \E v \in PowerModelValues : set_power_model(o, v)
    \/ \E o \in Refs : read_power_model(o)

SpecModels == Init /\ [][NextModels]_vars

\* cells with a position and a radius, and the access points placed in them
NextPlace ==
    \/ \E xyz \in CellPositions : make_cell_at(xyz)
    \/ \E c \in Refs : \E r \in 0..MaxRadius : assign_radius(c, r)
    \/ \E c \in RefsOrNone : \E centre \in BOOLEAN : \E u \in UniformDraws :
          RadioAccessPoint_init(c, centre, u)

SpecPlace == Init /\ [][NextPlace]_vars

\* ------------------------------------ the standalone AntennaPanel (scratch_file.py)

\* a Python value by its type: v is the number (True is 1, False is 0), nan
\* marks float('nan'), s is the text of a string
PyValue(type, v, nan, str) == [type |-> type, v |-> v, nan |-> nan, s |-> str]

PanelArgs ==
    {PyValue("int", n, FALSE, "") : n \in {-1, 0, 2}}
    \cup {PyValue("bool", n, FALSE, "") : n \in {0, 1}}
    \cup {PyValue("float", n, FALSE, "") : n \in {0, 1}}
    \cup {PyValue("float", 0, TRUE, "")}
    \cup {PyValue("str", 0, FALSE, str) : str \in {"omni", "mMIMO", "dish"}}
    \cup {PyValue("NoneType", 0, FALSE, "")}

\* isinstance(x, int): bool is a subclass of int
IsInstanceInt(x) == x.type \in {"int", "bool"}

\* isinstance(x, (int, float))
IsInstanceIntOrFloat(x) == x.type \in {"int", "bool", "float"}

\* x <= 0 on a number: every comparison with nan is False
LessOrEqualZero(x) == ~x.nan /\ x.v <= 0

valid_types == {"omni", "2-port", "8-port", "AAU", "mMIMO"}

\* AntennaPanel.validate: TRUE when it returns, FALSE when it raises ValueError
validate(self) ==
    /\ ~(~IsInstanceInt(self.num_elements) \/ LessOrEqualZero(self.num_elements))
    /\ ~(self.beamforming.type # "bool")
    /\ ~(~IsInstanceIntOrFloat(self.gain) \/ LessOrEqualZero(self.gain))
    /\ ~(self.antenna_type.type # "str" \/ self.antenna_type.s \notin valid_types)

\* AntennaPanel.__init__: the attributes, the id taken from the class
\* attribute, the class attribute incremented, then validate()
AntennaPanel_init(num_elements, beamforming, gain, antenna_type) ==
    /\ standalone.id < MaxPanelCalls
    /\ LET self == [num_elements |-> num_elements, beamforming |-> beamforming,
                    gain |-> gain, antenna_type |-> antenna_type,
                    id |-> standalone.id]
       IN  IF validate(self)
           THEN /\ standalone' = [id |-> standalone.id + 1,
                                  panels |-> Append(standalone.panels, self)]
                /\ result' = "ok"
           ELSE /\ standalone' = [standalone EXCEPT !.id = @ + 1]
                /\ result' = "ValueError"
    /\ returned' = PyNone
    /\ UNCHANGED <<objects, id_iter, guid_map, topology, ticks, pc, other_sim, clock,
                   config_file>>

\* standalone panels constructed with every kind of argument
NextPanels ==
    \E n, b, g, t \in PanelArgs : AntennaPanel_init(n, b, g, t)

SpecPanels == Init /\ [][NextPanels]_vars

\* configuration files written and loaded
NextConfig ==
    \/ \E doc \in JsonDocs : write_config(doc)
    \/ \E m \in MaxFileSizeArgs : ConfigLoader_load(m)

SpecConfig == Init /\ [][NextConfig]_vars

\* ------------------------------------------------------------------ claims

Adjacency(o) == Range(topology[objects[o].class_name][objects[o].guid])

Linked(a, b) == objects[b].guid \in Adjacency(a) /\ objects[a].guid \in Adjacency(b)

CellGuids == {objects[c].guid : c \in OfClass(CellClass)}

\* C1  Link symmetry: in every reachable state, for all registered nodes A
\* and B, B's GUID is in A's adjacency list iff A's GUID is in B's.
C1_LinkSymmetry ==
    \A a, b \in Refs : objects[b].guid \in Adjacency(a) <=> objects[a].guid \in Adjacency(b)

\* a UE that has been re-attached by its tick and is linked to its current cell
C1_Witness ==
    \E u \in OfClass(UEClass) : \E c \in OfClass(CellClass) :
        /\ objects[u].last_cell_guid # None
        /\ objects[u].current_cell_guid = objects[c].guid
        /\ Linked(u, c)

\* C2  GUID uniqueness: no two distinct nodes share a GUID, and guid_map maps
\* every issued GUID to the one node it was issued to (never overwritten).
C2_GuidUnique ==
    /\ \A a, b \in Refs : a # b => objects[a].guid # objects[b].guid
    /\ \A o \in Refs : /\ objects[o].guid \in DOMAIN guid_map
                       /\ guid_map[objects[o].guid] = o
    /\ Cardinality(DOMAIN guid_map) = Len(objects)

\* a radio head was re-added by make_AntennaPanel beside two other nodes
C2_Witness ==
    /\ Len(objects) = MaxObjects
    /\ \E h \in OfClass(RRHClass) : \E i \in DOMAIN objects[h].rf_ports :
           objects[h].rf_ports[i].antenna_panel # None

\* C3  UE re-attachment: a tick of a UE whose current cell X (unset, or a
\* cell it is linked to) differs from its serving cell Y leaves the UE out of
\* X's list and X out of the UE's, the UE in Y's list and Y in the UE's,
\* last_cell_guid = X and current_cell_guid = Y; with X unset nothing is
\* unlinked.
C3_Reattach ==
    [][\A u \in Refs :
          (/\ UE_loop(u)
           /\ objects[u].serving_cell # None
           /\ objects[u].current_cell_guid # objects[objects[u].serving_cell].guid
           /\ (objects[u].current_cell_guid # None =>
                  /\ objects[u].guid \in Range(topology[CellClass][objects[u].current_cell_guid])
                  /\ objects[u].current_cell_guid \in Range(topology[UEClass][objects[u].guid])))
          => LET g == objects[u].guid
                 X == objects[u].current_cell_guid
                 Y == objects[objects[u].serving_cell].guid
             IN  /\ objects'[u].last_cell_guid = X
                 /\ objects'[u].current_cell_guid = Y
                 /\ g \in Range(topology'[CellClass][Y])
                 /\ Y \in Range(topology'[UEClass][g])
                 /\ X # None => /\ g \notin Range(topology'[CellClass][X])
                                /\ X \notin Range(topology'[UEClass][g])
                 /\ X = None => \A cls \in DOMAIN topology : \A k \in DOMAIN topology[cls] :
                                   Range(topology[cls][k]) \subseteq Range(topology'[cls][k])
      ]_vars

\* a UE moved from cell X to cell Y by its tick
C3_Witness ==
    \E u \in OfClass(UEClass) :
        /\ objects[u].last_cell_guid # None
        /\ objects[u].current_cell_guid # None
        /\ objects[u].last_cell_guid # objects[u].current_cell_guid
        /\ objects[u].guid \in Range(topology[CellClass][objects[u].current_cell_guid])
        /\ objects[u].guid \notin Range(topology[CellClass][objects[u].last_cell_guid])
        /\ result = "ok"

\* C4  UE adjacency reflects current_cell_guid: once a UE has ticked, under
\* any sequence of serving-cell changes, the only cell in its adjacency list
\* is current_cell_guid, it is in that cell's list and in no other cell's,
\* and it is not linked to last_cell_guid.
C4_AdjacencyIsCurrent ==
    \A u \in OfClass(UEClass) :
        LET g == objects[u].guid
            cur == objects[u].current_cell_guid
            last == objects[u].last_cell_guid
        IN  cur # None =>
              /\ Range(topology[UEClass][g]) \cap CellGuids = {cur}
              /\ \A c \in CellGuids : g \in Range(topology[CellClass][c]) <=> c = cur
              /\ last # cur
              /\ last # None => /\ last \notin Range(topology[UEClass][g])
                                /\ g \notin Range(topology[CellClass][last])

\* a UE that was moved between cells and whose serving cell has changed again
C4_Witness ==
    \E u \in OfClass(UEClass) :
        /\ objects[u].last_cell_guid # None
        /\ objects[u].current_cell_guid # None
        /\ objects[u].serving_cell # None
        /\ objects[objects[u].serving_cell].guid = objects[u].last_cell_guid

OccupiedPorts(h) == {i \in DOMAIN objects[h].rf_ports : objects[h].rf_ports[i].antenna_panel # None}

FreePorts(h) == (DOMAIN objects[h].rf_ports) \ OccupiedPorts(h)

LowestFreePort(h) == CHOOSE i \in FreePorts(h) : \A j \in FreePorts(h) : i <= j

\* the number of slots rf_ports is created with for a recorded n_rf_ports
PoolCapacity(h) ==
    IF objects[h].n_rf_ports > 0 THEN objects[h].n_rf_ports ELSE DefaultRfPorts

\* C5  First-free-slot allocation: a make_AntennaPanel call on a radio head
\* constructed with n >= 1 RF ports, one of them free, succeeds and puts the
\* new panel in the lowest-indexed free port; the call fails only when no
\* port is free.
C5_FirstFreeSlot ==
    [][\A h \in Refs :
          (make_AntennaPanel(h) /\ objects[h].n_rf_ports >= 1) =>
             IF FreePorts(h) # {}
             THEN /\ result' = "ok"
                  /\ objects'[h].rf_ports[LowestFreePort(h)].antenna_panel = Len(objects) + 1
             ELSE result' # "ok"
      ]_vars

\* C6  All-or-nothing attach: a make_AntennaPanel call on a radio head whose
\* RF ports are all occupied fails and leaves guid_map, topology, rf_ports
\* and the set of registered nodes as they were.
C6_AllOrNothing ==
    [][\A h \in Refs :
          (make_AntennaPanel(h) /\ FreePorts(h) = {})
          => /\ result' # "ok"
             /\ guid_map' = guid_map
             /\ topology' = topology
             /\ objects'[h].rf_ports = objects[h].rf_ports
      ]_vars

\* C7  Bounded pool: for every radio head the slots of rf_ports are those it
\* was constructed with, the occupied ones are at most that many, and no
\* antenna panel occupies two ports (of this or of any other radio head).
C7_BoundedPool ==
    /\ \A h \in OfClass(RRHClass) :
          /\ DOMAIN objects[h].rf_ports = 0..(PoolCapacity(h) - 1)
          /\ Cardinality(OccupiedPorts(h)) <= PoolCapacity(h)
    /\ \A h1, h2 \in OfClass(RRHClass) :
          \A i \in OccupiedPorts(h1) : \A j \in OccupiedPorts(h2) :
             objects[h1].rf_ports[i].antenna_panel = objects[h2].rf_ports[j].antenna_panel
             => (h1 = h2 /\ i = j)

\* a make_AntennaPanel call has just failed on a radio head with a panel attached
C7_Witness ==
    /\ result = "Exception: No free antenna ports"
    /\ \E h \in OfClass(RRHClass) : OccupiedPorts(h) # {}

\* C8  Energy accumulation: a node with a constant power model P and
\* interval d has accumulated_joules = n * P * d after n >= 1 completed ticks.
C8_EnergyAccumulation ==
    \A o \in Refs :
        (/\ HasAttr(objects[o], "_power_model")
         /\ objects[o]._power_model.kind = "number"
         /\ ticks[o] >= 1)
        => GetAttr(objects[o], "accumulated_joules")
             = ticks[o] * objects[o]._power_model.value * objects[o].interval

\* C9  CU/DU load coupling: the power model of a centralised unit attached to
\* a distributed unit is (1 - du_load) * 656.25 W for that unit's p_load.
C9_LoadCoupling ==
    \A c \in OfClass(CUClass) :
        objects[c].du # None
        => power_model(objects[c]).value = example_CU_power_model(objects[objects[c].du].p_load)

\* C10  Link idempotence: from any reachable topology and for any registered
\* nodes A and B, register_link(A, B) applied twice gives the topology that
\* applying it once gives.
C10_LinkIdempotent ==
    \A a, b \in Refs :
        LET once == register_link(topology, objects[a], objects[b])
        IN  register_link(once, objects[a], objects[b]) = once

\* register_link has just been called on a pair that was already linked
C10_Witness ==
    /\ result = "already exists"
    /\ \E a, b \in Refs : a # b /\ Linked(a, b)

\* the calls that end by raising
Raised ==
    {"AttributeError", "AssertionError", "ValueError", OtherIsNotSimObject,
     "ValueError: must be an integer", "ValueError: not found in simulation",
     "Exception: No free antenna ports", "KeyError"}

\* C11  Link/unlink round trip: for registered nodes A and B that are not
\* linked, deregister_link(A, B) after register_link(A, B) gives back the
\* topology as it was: A's and B's lists as before the link, every other list
\* untouched.
C11_RoundTrip ==
    \A a, b \in Refs :
        (a # b /\ objects[b].guid \notin Adjacency(a) /\ objects[a].guid \notin Adjacency(b))
        => LET linked == register_link_guarded(topology, objects[a], PyObject(b)).topo
           IN  deregister_link(linked, objects[a], PyObject(b)).topo = topology

\* C12  Unlink never raises: deregister_link(A, B) on registered nodes ends
\* without an exception, afterwards neither GUID is in the other's list, and
\* every other adjacency list is as before.
C12_UnlinkNeverRaises ==
    [][\A a, b \in Refs :
          DeregisterLinkWith(a, PyObject(b))
          => /\ result' \notin Raised
             /\ objects[b].guid \notin Range(topology'[objects[a].class_name][objects[a].guid])
             /\ objects[a].guid \notin Range(topology'[objects[b].class_name][objects[b].guid])
             /\ \A o \in Refs \ {a, b} :
                   topology'[objects[o].class_name][objects[o].guid]
                     = topology[objects[o].class_name][objects[o].guid]
      ]_vars

\* C13  Invalid operand: register_link and deregister_link called with an
\* operand that is not a SimObject raise to the caller (the operand test's
\* ValueError, the assert's AssertionError) and leave the topology as it was.
C13_InvalidOperand ==
    [][\A a \in Refs : \A x \in NonSimObjectOperands :
          /\ RegisterLinkWith(a, x) => (result' = OtherIsNotSimObject /\ topology' = topology)
          /\ DeregisterLinkWith(a, x) => (result' = "AssertionError" /\ topology' = topology)
      ]_vars

\* an unlink with an invalid operand has just been refused on a linked node
C13_Witness ==
    /\ result = "AssertionError"
    /\ \E a, b \in Refs : a # b /\ Linked(a, b)

\* C14  Duplicate registration (as stated): add_to_sim on a node that is
\* registered already fails, and guid_map and topology are unchanged.
C14_DuplicateRejected ==
    [][\A o \in Refs :
          AddToSim(o) => (result' \in Raised /\ guid_map' = guid_map /\ topology' = topology)
      ]_vars

\* C14  (amended) add_to_sim on a node that is registered already raises
\* nothing and changes neither guid_map nor topology: the node keeps its
\* GUID's entry and its adjacency list.
C14_ReAddIsNoOp ==
    [][\A o \in Refs :
          AddToSim(o) => (result' = "Added" /\ guid_map' = guid_map /\ topology' = topology)
      ]_vars

\* a node that has links has just been added again
C14_Witness ==
    /\ result = "Added"
    /\ Len(objects) >= 2
    /\ \A o \in Refs : Adjacency(o) # {}

\* C15  GUID resolution: get_object_from_guid(g) hands back the node
\* registered under g when g is a key of guid_map, raises when it is not, and
\* changes neither guid_map nor topology.
C15_Resolve ==
    [][\A g \in 1..MaxGuid :
          get_object_from_guid(PyInt(g))
          => /\ guid_map' = guid_map /\ topology' = topology
             /\ IF g \in DOMAIN guid_map
                THEN result' = "ok" /\ returned' = PyObject(guid_map[g])
                ELSE result' \in Raised
      ]_vars

\* C16  Registry/topology agreement: the GUIDs that are keys of guid_map are
\* the GUIDs that have an adjacency list in topology, each filed under the
\* class name of the node guid_map maps it to, and under no other.
C16_RegistryTopologyAgree ==
    /\ DOMAIN guid_map = UNION {DOMAIN topology[cls] : cls \in DOMAIN topology}
    /\ \A cls \in DOMAIN topology : \A g \in DOMAIN topology[cls] :
          /\ g \in DOMAIN guid_map
          /\ objects[guid_map[g]].class_name = cls
    /\ \A o \in Refs : objects[o].guid \in DOMAIN guid_map

\* nodes of three classes are registered, one linked and one without links
C16_Witness ==
    /\ Cardinality(DOMAIN topology) = MaxObjects
    /\ \E a, b \in Refs : a # b /\ Linked(a, b)
    /\ \E o \in Refs : topology[objects[o].class_name][objects[o].guid] = <<>>

\* the node a constructor has just made is linked, both ways, to b
NewNodeLinkedTo(b) ==
    LET n == Len(objects')
    IN  /\ objects'[b].guid \in Range(topology'[objects'[n].class_name][objects'[n].guid])
        /\ objects'[n].guid \in Range(topology'[objects'[b].class_name][objects'[b].guid])

\* C17  Structural linking at construction: a RadioAccessPoint is linked to
\* its cell; a RadioUnit to its cell, its RadioAccessPoint and the
\* DistributedUnit it is given; a RemoteRadioHead to the RadioAccessPoint and
\* RadioUnit it is given.
C17_StructuralLinks ==
    [][/\ \A c \in Refs : make_RadioAccessPoint(c) => NewNodeLinkedTo(c)
       /\ \A c, r, d \in RefsOrNone :
             make_RadioUnit(c, r, d)
             => /\ c # None => NewNodeLinkedTo(c)
                /\ r # None => NewNodeLinkedTo(r)
                /\ d # None => NewNodeLinkedTo(d)
       /\ \A r, u \in RefsOrNone : \A n \in 0..MaxPorts :
             (make_RemoteRadioHead(r, u, n) /\ result' = "ok")
             => /\ r # None => NewNodeLinkedTo(r)
                /\ u # None => NewNodeLinkedTo(u)
      ]_vars

\* C18  No-model read: reading power_model on a node no power model was set
\* on hands back None without raising; on a node whose model was set it
\* hands back that model, 0 included.
C18_NoModelRead ==
    [][\A o \in Refs :
          read_power_model(o)
          => IF HasAttr(objects[o], "_power_model")
             THEN result' \notin Raised /\ returned' = objects[o]._power_model
             ELSE result' \notin Raised /\ returned' = PyNone
      ]_vars

EveryLoopSuspended == \A o \in DOMAIN pc : pc[o] = AtYield

\* C19  Tick atomicity: while a UE is between update_cell_guid and
\* update_ue_topology the only step taken is that UE's own, up to its yield;
\* and whenever every loop is suspended, links are symmetric and each UE's
\* adjacency is that of its current_cell_guid.
C19_TickAtomic ==
    [][/\ \A u \in DOMAIN pc :
             pc[u] # AtYield
             => /\ pc' = [pc EXCEPT ![u] = AtYield]
                /\ objects' = objects
       /\ EveryLoopSuspended' => (C1_LinkSymmetry /\ C4_AdjacencyIsCurrent)'
      ]_vars

\* a UE in the middle of a tick, its current_cell_guid set and its links not
\* yet made, beside a second UE whose loop is suspended and has work to do
C19_Witness ==
    \E u, v \in OfClass(UEClass) :
        /\ u # v
        /\ pc[u] = UpdatedCellGuid
        /\ objects[u].current_cell_guid # None
        /\ objects[u].current_cell_guid \notin Adjacency(u)
        /\ pc[v] = AtYield
        /\ objects[v].serving_cell # None
        /\ objects[v].current_cell_guid = None

\* the idx (and label) the next node constructed in the second Sim receives
NextIdxInOtherSim == id_iter + 1

\* C21  Instance isolation: an operation on the first Sim (construction,
\* register_link, a UE tick) changes nothing that is seen through the second
\* Sim: not its guid_map, not its topology, not its nodes, and not the idx
\* its next node receives.
C21_InstanceIsolation ==
    [][(OnThisSim /\ other_sim.objects # <<>>)
          => /\ other_sim' = other_sim
             /\ NextIdxInOtherSim' = NextIdxInOtherSim
      ]_vars

\* C22  Positive tick interval: every node whose interval is set in this
\* module (RadioAccessPoint, RadioUnit, DistributedUnit, CentralisedUnit,
\* RemoteRadioHead, AntennaPanel) has interval > 0, and 1 when it was
\* constructed without an explicit interval, as all are here.
C22_PositiveInterval ==
    \A o \in Refs :
        objects[o].class_name \in WaitLoopClasses
        => (objects[o].interval > 0 /\ objects[o].interval = 1)

\* C23  Progress to the horizon: each resumption of a node's loop happens at
\* a time before the horizon and leaves the node's next resumption at a
\* strictly later time.
C23_ProgressToHorizon ==
    [][\A o \in Refs :
          timed_loop(o) => /\ clock'.now < Horizon
                           /\ clock'.wake[o] > clock'.now
      ]_vars

\* a tick of u that finds the serving cell's GUID equal to current_cell_guid
NoChangeTick(u) ==
    /\ UE_loop(u)
    /\ objects[u].serving_cell # None
    /\ objects[objects[u].serving_cell].guid = objects[u].current_cell_guid

\* C24  (as stated) A UE tick in which the serving cell's GUID equals
\* current_cell_guid leaves current_cell_guid, last_cell_guid and every
\* adjacency list as they were.
C24_NoChangeTickIsIdle ==
    [][\A u \in Refs : NoChangeTick(u) => (objects' = objects /\ topology' = topology)]_vars

\* the UE is linked both ways to its current cell and in neither direction
\* to its last one
LinkedAsLastTickLeftIt(u) ==
    LET g == objects[u].guid
        cur == objects[u].current_cell_guid
        last == objects[u].last_cell_guid
    IN  /\ g \in Range(topology[CellClass][cur])
        /\ cur \in Range(topology[UEClass][g])
        /\ last # None => /\ g \notin Range(topology[CellClass][last])
                          /\ last \notin Range(topology[UEClass][g])

\* C24  (amended) Such a tick leaves current_cell_guid and last_cell_guid as
\* they were; it leaves the topology as it was when the UE is linked to its
\* current cell and not to its last cell, and otherwise it only takes the UE
\* and its last cell out of each other's lists.
C24_NoChangeTickRepairs ==
    [][\A u \in Refs :
          NoChangeTick(u)
          => /\ objects' = objects
             /\ LinkedAsLastTickLeftIt(u) => topology' = topology
             /\ \A cls \in DOMAIN topology : \A k \in DOMAIN topology[cls] :
                   topology'[cls][k] # topology[cls][k]
                   => /\ objects[u].last_cell_guid # None
                      /\ \/ (cls = CellClass /\ k = objects[u].last_cell_guid
                             /\ topology'[cls][k] = RemoveAll(topology[cls][k], objects[u].guid))
                         \/ (cls = UEClass /\ k = objects[u].guid
                             /\ topology'[cls][k] =
                                  RemoveAll(topology[cls][k], objects[u].last_cell_guid))
      ]_vars

\* a UE that has moved between cells, has ticked, and still has the serving
\* cell it is linked to
C24_Witness ==
    \E u \in OfClass(UEClass) :
        /\ result = "ok"
        /\ objects[u].last_cell_guid # None
        /\ objects[u].serving_cell # None
        /\ objects[objects[u].serving_cell].guid = objects[u].current_cell_guid
        /\ LinkedAsLastTickLeftIt(u)

\* the entries of old that new keeps come first in new, in old's order, and
\* what new adds comes after them
KeepsOrder(old, new) ==
    LET kept == SelectSeq(old, LAMBDA x : x \in Range(new))
    IN  /\ Len(kept) <= Len(new)
        /\ SubSeq(new, 1, Len(kept)) = kept
        /\ \A i \in (Len(kept) + 1)..Len(new) : new[i] \notin Range(old)

C26_PortRelease ==
    [][\A h \in Refs : \A i \in 0..(MaxPorts + 1) :
          release(h, i)
          => /\ result' \notin Raised
             /\ objects'[h].rf_ports[i].antenna_panel = None
             /\ objects[h].rf_ports[i].antenna_panel = None => objects' = objects
      ]_vars

\* C30  RF port lookup: get_rf_port(i) hands back the record of slot i for
\* every slot index the radio head has, and raises for every other index.
C30_PortLookup ==
    [][\A h \in Refs : \A i \in 0..(MaxPorts + 1) :
          get_rf_port(h, i)
          => IF i \in DOMAIN objects[h].rf_ports
             THEN /\ result' = "ok"
                  /\ returned'.kind = "port"
                  /\ returned'.value = objects[h].rf_ports[i]
             ELSE result' \in Raised
      ]_vars

\* C28  DU power formula: the power model of a distributed unit is the sum
\* n_cpu*P_cpu + ram_GB*P_ram_GB + n_gpu*P_gpu + n_accel*P_accel +
\* n_asic*P_asic + n_nic*P_nic for the parameters in force, which is its
\* power_consumption (624 W with the defaults), and p_load is that sum over
\* P_supply_max.
C28_DUPowerFormula ==
    \A d \in OfClass(DUClass) :
        /\ \E p \in DUParamSets :
              /\ objects[d].power_consumption = DU_power_consumption(p)
              /\ objects[d].p_load = DU_p_load(p)
              /\ power_model(objects[d]).value = DU_power_consumption(p)
        /\ power_model(objects[d]).value = objects[d].power_consumption
        /\ objects[d].p_load = DU_p_load(DefaultDUParams)
           => objects[d].power_consumption = 4992

\* C29  CU-DU attachment: cu.attach_to_du(du) ends without an exception,
\* records du as cu's distributed unit and links the two, both ways.
C29_AttachToDU ==
    [][\A c, d \in Refs :
          attach_to_du(c, d)
          => /\ result' \notin Raised
             /\ objects'[c].du = d
             /\ objects[d].guid \in Range(topology'[CUClass][objects[c].guid])
             /\ objects[c].guid \in Range(topology'[DUClass][objects[d].guid])
      ]_vars

\* C27  Config size limit: load(config_file, max_file_size_bytes) on a file
\* that json.dump wrote raises the size-exceeded ValueError exactly when the
\* file has more bytes than max_file_size_bytes, without opening the file;
\* otherwise it hands back the parsed content, equal to the data written.
C27_ConfigSizeLimit ==
    [][\A m \in MaxFileSizeArgs :
          (ConfigLoader_load(m) /\ config_file.exists)
          => IF Len(config_file.text) > m
             THEN /\ result' = SizeExceeded
                  /\ ~config_file'.opened
             ELSE /\ result' = "ok"
                  /\ config_file'.opened
                  /\ returned'.kind = "json"
                  /\ returned'.value = config_file.written
      ]_vars

\* a file holding an object in an object has just been loaded
C27_Witness ==
    /\ result = "ok"
    /\ returned.kind = "json"
    /\ config_file.exists
    /\ config_file.opened
    /\ config_file.written.m # <<>>
    /\ config_file.written.m[1].t = "obj"
    /\ returned.value = config_file.written

\* C31  RadioAccessPoint placement: an access point made with at_cell_centre
\* has the x and y of its cell; one made without is no further from the
\* cell's centre, horizontally, than the cell's radius; its z is 0 either way.
\* (Positions are in half metres, the radius in metres.)
C31_Placement ==
    [][\A c \in Refs : \A centre \in BOOLEAN : \A u \in UniformDraws :
          RadioAccessPoint_init(c, centre, u)
          => LET rap == objects'[Len(objects')]
                 dx == rap.xyz[1] - objects[c].xyz[1]
                 dy == rap.xyz[2] - objects[c].xyz[2]
             IN  /\ rap.xyz[3] = 0
                 /\ IF centre
                    THEN dx = 0 /\ dy = 0
                    ELSE dx * dx + dy * dy <= 4 * objects[c].radius * objects[c].radius
      ]_vars

\* C32  Power-model assignment: after power_model is set to a number or to a
\* callable the node holds exactly that value and a read hands it back; any
\* other value is refused with an error and the node is left as it was.
C32_PowerModelAssignment ==
    [][\A o \in Refs :
          /\ \A v \in PowerModelValues :
                set_power_model(o, v)
                => IF v.kind \in {"number", "callable"}
                   THEN /\ result' = "ok"
                        /\ HasAttr(objects'[o], "_power_model")
                        /\ objects'[o]._power_model = v
                        /\ \A n \in Refs \ {o} : objects'[n] = objects[n]
                   ELSE /\ result' = "ValueError"
                        /\ objects' = objects
          /\ (read_power_model(o) /\ HasAttr(objects[o], "_power_model"))
                => /\ result' = "ok"
                   /\ returned' = objects[o]._power_model
                   /\ objects' = objects
      ]_vars

\* a node that holds a callable model has just refused another value
C32_Witness ==
    /\ result = "ValueError"
    /\ \E o \in Refs : /\ HasAttr(objects[o], "_power_model")
                        /\ objects[o]._power_model.kind = "callable"

\* C33  Unattached tick: a tick of a UE without a serving cell ends without
\* an error, leaves current_cell_guid and last_cell_guid unset and leaves the
\* topology as it was.
C33_UnattachedTick ==
    [][\A u \in Refs :
          (UE_loop(u) /\ objects[u].serving_cell = None)
          => /\ result' \notin Raised
             /\ objects'[u].current_cell_guid = None
             /\ objects'[u].last_cell_guid = None
             /\ topology' = topology
      ]_vars

\* C34  Capacity consistency: on every radio head, whatever n_rf_ports it was
\* made with, the recorded n_rf_ports is the number of slots in rf_ports.
C34_CapacityConsistency ==
    \A h \in OfClass(RRHClass) :
        objects[h].n_rf_ports = Cardinality(DOMAIN objects[h].rf_ports)

\* C35  Independent fronthaul ports: a radio head's fronthaul ports are made
\* with the protocol and the maximum data rate it was given, and writing
\* data_rate_Gbps of one port changes no other fronthaul port, of this head
\* or of another, and no RF port.
C35_IndependentFronthaulPorts ==
    [][/\ \A n \in 1..MaxPorts : \A fh \in FronthaulPortsArgs :
             RemoteRadioHead_init(None, None, n, fh)
             => LET rrh == objects'[Len(objects')]
                IN  /\ DOMAIN rrh._fronthaul_ports = 0..(fh.n_ports - 1)
                    /\ \A i \in DOMAIN rrh._fronthaul_ports :
                          /\ FronthaulPort(rrh, i).protocol = fh.protocol
                          /\ FronthaulPort(rrh, i).data_rate_Gbps_max = fh.data_rate_Gbps_max
       /\ \A h \in OfClass(RRHClass) : \A i \in DOMAIN objects[h]._fronthaul_ports :
             \A v \in DataRates :
                set_fronthaul_data_rate(h, i, v)
                => /\ FronthaulPort(objects'[h], i).data_rate_Gbps = v
                   /\ \A h2 \in OfClass(RRHClass) :
                         /\ objects'[h2].rf_ports = objects[h2].rf_ports
                         /\ \A j \in DOMAIN objects[h2]._fronthaul_ports :
                               (h2 # h \/ j # i)
                               => FronthaulPort(objects'[h2], j) = FronthaulPort(objects[h2], j)
      ]_vars

\* C36  No duplicate edges: in every state reached by constructions,
\* register_link, make_AntennaPanel and UE ticks, no adjacency list of the
\* topology holds a GUID twice.
C36_NoDuplicateEdges ==
    \A cls \in DOMAIN topology : \A g \in DOMAIN topology[cls] :
        \A i, j \in DOMAIN topology[cls][g] :
            topology[cls][g][i] = topology[cls][g][j] => i = j

\* a link that was there already has just been registered again, on a node
\* with two neighbours
C36_Witness ==
    /\ result = "already exists"
    /\ \E cls \in DOMAIN topology : \E g \in DOMAIN topology[cls] :
          Len(topology[cls][g]) >= 2

\* the GUIDs a topology has an adjacency list for
TopologyKeys(topo) == UNION {DOMAIN topo[cls] : cls \in DOMAIN topo}

\* the GUIDs that appear in the adjacency lists of a topology
TopologyEdges(topo) ==
    UNION {Range(topo[cls][g]) : <<cls, g>> \in {<<c, k>> \in (DOMAIN topo) \X (1..MaxGuid) :
                                                  k \in DOMAIN topo[c]}}

\* C37  No dangling edges: every GUID in an adjacency list of a Sim's
\* topology is a key of that Sim's guid_map and has an adjacency list of its
\* own in that Sim's topology.
C37_NoDanglingEdges ==
    /\ TopologyEdges(topology) \subseteq (DOMAIN guid_map) \cap TopologyKeys(topology)
    /\ TopologyEdges(other_sim.topology)
          \subseteq (DOMAIN other_sim.guid_map) \cap TopologyKeys(other_sim.topology)

\* what C38 asks of the four arguments
C38_PositiveIntegers == {n \in PanelArgs : n.type \in {"int", "bool"} /\ n.v > 0}

C38_Booleans == {b \in PanelArgs : b.type = "bool"}

C38_PositiveNumbers ==
    {g \in PanelArgs : g.type \in {"int", "bool", "float"} /\ ~g.nan /\ g.v > 0}

C38_KnownTypes ==
    {t \in PanelArgs : t.type = "str" /\ t.s \in {"omni", "2-port", "8-port", "AAU", "mMIMO"}}

\* C38  AntennaPanel validation (scratch_file.py): the constructor succeeds
\* exactly when num_elements is a positive integer, beamforming a boolean,
\* gain a positive number and antenna_type one of the five names, and raises
\* ValueError otherwise; a panel that was made has an id no earlier panel has.
\* (Every call with such arguments makes a panel; every call that makes a
\* panel had such arguments; every other call ends in ValueError.)
C38_PanelValidation ==
    [][/\ \A n \in C38_PositiveIntegers : \A b \in C38_Booleans :
          \A g \in C38_PositiveNumbers : \A t \in C38_KnownTypes :
             AntennaPanel_init(n, b, g, t)
             => /\ result' = "ok"
                /\ Len(standalone'.panels) = Len(standalone.panels) + 1
       /\ standalone' # standalone
             => IF standalone'.panels # standalone.panels
                THEN LET panel == standalone'.panels[Len(standalone'.panels)]
                     IN  /\ result' = "ok"
                         /\ standalone'.panels = Append(standalone.panels, panel)
                         /\ panel.num_elements \in C38_PositiveIntegers
                         /\ panel.beamforming \in C38_Booleans
                         /\ panel.gain \in C38_PositiveNumbers
                         /\ panel.antenna_type \in C38_KnownTypes
                         /\ \A i \in DOMAIN standalone.panels :
                               standalone.panels[i].id # panel.id
                ELSE result' = "ValueError"
      ]_vars

====
